---- MODULE Spec2Model ----
(***************************************************************************)
(* Multi-agent bottleneck environments of flow/envs/multiagent/            *)
(* bottleneck.py: BottleneckMultiAgentEnv and its two subclasses           *)
(* BottleneckFlowRewardMultiAgentEnv and BottleneckDanielMultiAgentEnv.    *)
(* The environments read a simulator snapshot through k.vehicle and        *)
(* k.network, build per-agent observations (get_state), compute per-agent  *)
(* rewards (compute_reward) and issue commands (_apply_rl_actions).        *)
(***************************************************************************)
EXTENDS Integers, Sequences, FiniteSets, TLC

VARIABLES
    env_class,          \* which of the three environment classes is instantiated
    additional_params,  \* env_params.additional_params: key -> value
    constructed,        \* "new", "ready", or "KeyError" (raised by __init__)
    time_counter,       \* self.time_counter
    rl_ids,             \* k.vehicle.get_rl_ids(): list of controlled vehicle ids
    vehicles,           \* simulator snapshot: id -> [edge, lane, x, speed, last_lc]
    outflow,            \* k.vehicle.get_rl_outflow_rate(10 * sim_step), veh/hour
    call,               \* the method executed last, with its arguments
    obs,                \* dict returned by the last get_state
    queried,            \* per-vehicle queries get_state issued for neighbour ids
    rewards,            \* dict returned by the last compute_reward
    accel_cmds,         \* apply_acceleration commands of the last _apply_rl_actions
    lc_cmds             \* apply_lane_change commands of the last _apply_rl_actions

vars == <<env_class, additional_params, constructed, time_counter, rl_ids,
          vehicles, outflow, call, obs, queried, rewards, accel_cmds, lc_cmds>>

----------------------------------------------------------------------------
(* Bounds of the model *)

\* positions on an edge are 10, 20, .., 10 * MaxPos
MaxPos == 2
\* time_counter runs from 0 to MaxTime
MaxTime == 3

----------------------------------------------------------------------------
(* Module constants and configuration *)

MAX_LANES == 4
scaling == 1
nr_self_perc_features == 3
perc_lanes_around == 1
features_per_car == 3

Base == "BottleneckMultiAgentEnv"
FlowReward == "BottleneckFlowRewardMultiAgentEnv"
Daniel == "BottleneckDanielMultiAgentEnv"
EnvClasses == {Base, FlowReward, Daniel}
Windowed == {FlowReward, Daniel}

\* rl_actions: None, or a dict given as the list of its items
\* <<id, acceleration, lane change intent>> in insertion order
None == [given |-> FALSE, items |-> <<>>]
Dict(items) == [given |-> TRUE, items |-> items]

\* the method executed last and its arguments
Called(method, rl_actions, fail) ==
    [method |-> method, rl_actions |-> rl_actions, fail |-> fail]

\* the empty dict
EmptyDict == [i \in {} |-> 0]

Min(a, b) == IF a < b THEN a ELSE b
Max(a, b) == IF a > b THEN a ELSE b
Abs(a) == IF a < 0 THEN -a ELSE a

----------------------------------------------------------------------------
(* The network: edges 3, 4, 5 of the bottleneck, narrowing 4 -> 2 -> 1     *)
(* lanes (times scaling).                                                   *)

Edges == {"3", "4", "5"}

num_lanes(edge) ==
    CASE edge = "3" -> 4 * scaling
      [] edge = "4" -> 2 * scaling
      [] edge = "5" -> 1 * scaling
      [] OTHER -> -1001

speed_limit(edge) ==
    CASE edge = "3" -> 20
      [] edge = "4" -> 20
      [] edge = "5" -> 10
      [] OTHER -> -1001

max_speed == 20

\* int(edge_num) of the base observation
edge_int(edge) ==
    CASE edge = "3" -> 3
      [] edge = "4" -> 4
      [] edge = "5" -> 5
      [] OTHER -> 0

edge_start(edge) ==
    CASE edge = "3" -> 0
      [] edge = "4" -> 100
      [] edge = "5" -> 200
      [] OTHER -> 0

next_edge(edge) ==
    CASE edge = "3" -> "4"
      [] edge = "4" -> "5"
      [] OTHER -> ""

\* the lane of next_edge(edge) that lane l of edge leads into
next_lane(edge, l) == IF edge = "3" THEN l \div 2 ELSE 0

----------------------------------------------------------------------------
(* k.vehicle getters.  An id that is not a vehicle of the snapshot (the    *)
(* empty id in particular) yields the error value.                         *)

VehIds == {"rl_0", "rl_1", "flow_0", "human_0"}

\* 'sub' in veh_id, for the substrings the code tests
NameContains(veh_id, sub) ==
    CASE sub = "rl" -> veh_id \in {"rl_0", "rl_1"}
      [] sub = "human" -> veh_id \in {"human_0"}
      [] sub = "flow" -> veh_id \in {"flow_0"}
      [] OTHER -> FALSE

LANE_ERROR == -1001

get_edge(veh_id) ==
    IF veh_id \in DOMAIN vehicles THEN vehicles[veh_id].edge ELSE ""

get_lane(veh_id, error) ==
    IF veh_id \in DOMAIN vehicles THEN vehicles[veh_id].lane ELSE error

get_speed(veh_id, error) ==
    IF veh_id \in DOMAIN vehicles THEN vehicles[veh_id].speed ELSE error

get_x_by_id(veh_id) ==
    IF get_edge(veh_id) = "" THEN -1001 ELSE vehicles[veh_id].x

get_last_lc(veh_id) ==
    IF veh_id \in DOMAIN vehicles THEN vehicles[veh_id].last_lc ELSE -1001

\* the element of the non-empty set S of vehicles with the least / greatest x
Nearest(S) == CHOOSE u \in S : \A w \in S : vehicles[u].x <= vehicles[w].x
Farthest(S) == CHOOSE u \in S : \A w \in S : vehicles[u].x >= vehicles[w].x

AheadOf(veh_id, l) ==
    {u \in DOMAIN vehicles \ {veh_id} :
        /\ vehicles[u].edge = vehicles[veh_id].edge
        /\ vehicles[u].lane = l
        /\ vehicles[u].x > vehicles[veh_id].x}

AheadNextEdge(veh_id, l) ==
    {u \in DOMAIN vehicles \ {veh_id} :
        /\ vehicles[u].edge = next_edge(vehicles[veh_id].edge)
        /\ vehicles[u].lane = next_lane(vehicles[veh_id].edge, l)}

Behind(veh_id, l) ==
    {u \in DOMAIN vehicles \ {veh_id} :
        /\ vehicles[u].edge = vehicles[veh_id].edge
        /\ vehicles[u].lane = l
        /\ vehicles[u].x < vehicles[veh_id].x}

BehindPrevEdge(veh_id, l) ==
    {u \in DOMAIN vehicles \ {veh_id} :
        /\ next_edge(vehicles[u].edge) = vehicles[veh_id].edge
        /\ next_lane(vehicles[u].edge, vehicles[u].lane) = l}

\* the leader / follower of veh_id in lane l of its edge, "" when there is none
lane_leader(veh_id, l) ==
    IF AheadOf(veh_id, l) # {} THEN Nearest(AheadOf(veh_id, l))
    ELSE IF AheadNextEdge(veh_id, l) # {} THEN Nearest(AheadNextEdge(veh_id, l))
    ELSE ""

lane_follower(veh_id, l) ==
    IF Behind(veh_id, l) # {} THEN Farthest(Behind(veh_id, l))
    ELSE IF BehindPrevEdge(veh_id, l) # {} THEN Farthest(BehindPrevEdge(veh_id, l))
    ELSE ""

\* one entry per lane of the vehicle's edge; entry l+1 is lane l
get_lane_leaders(veh_id) ==
    [i \in 1..num_lanes(get_edge(veh_id)) |-> lane_leader(veh_id, i - 1)]

get_lane_followers(veh_id) ==
    [i \in 1..num_lanes(get_edge(veh_id)) |-> lane_follower(veh_id, i - 1)]

get_lane_headways(veh_id) ==
    [i \in 1..num_lanes(get_edge(veh_id)) |->
        IF lane_leader(veh_id, i - 1) = "" THEN 1000
        ELSE vehicles[lane_leader(veh_id, i - 1)].x - vehicles[veh_id].x]

get_lane_tailways(veh_id) ==
    [i \in 1..num_lanes(get_edge(veh_id)) |->
        IF lane_follower(veh_id, i - 1) = "" THEN 1000
        ELSE vehicles[veh_id].x - vehicles[lane_follower(veh_id, i - 1)].x]

----------------------------------------------------------------------------
(* BottleneckMultiAgentEnv.get_state.  The components are quotients        *)
(* (x / 1000, speed / max_speed, ..): a component is the pair <<n, d>>    *)
(* standing for n / d.                                                     *)

IsJunction(edge) == edge \in {":3_0", ":4_0", ":5_0"}

\* entry i of a list, or the default when the list is shorter
EntryOr(list, i, default) == IF i <= Len(list) THEN list[i] ELSE default

\* `if lane_followers != ''` compares the list lane_followers, not its entry
\* lane_follower, with the empty string: a list never equals a string
BaseFollowerGuard(lane_followers, i) == TRUE

BaseSelfObservation(rl_id) ==
    LET edge == get_edge(rl_id)
        edge_num == IF edge = "" \/ IsJunction(edge)
                    THEN <<-1, 1>> ELSE <<edge_int(edge), 6>>
    IN  << <<get_x_by_id(rl_id), 1000>>,
           <<get_speed(rl_id, -1001), max_speed>>,
           <<get_lane(rl_id, -1001), MAX_LANES>>,
           edge_num >>

BaseRelativeObservation(rl_id) ==
    LET n == MAX_LANES * scaling
        headway_scale == 1000
        lane_leaders == get_lane_leaders(rl_id)
        lane_followers == get_lane_followers(rl_id)
        headway == [i \in 1..n |->
            <<EntryOr(get_lane_headways(rl_id), i, 1000), headway_scale>>]
        tailway == [i \in 1..n |->
            <<EntryOr(get_lane_tailways(rl_id), i, 1000), headway_scale>>]
        vel_in_front == [i \in 1..n |->
            IF i <= Len(lane_leaders) /\ lane_leaders[i] # ""
            THEN <<get_speed(lane_leaders[i], -1001), max_speed>>
            ELSE <<0, max_speed>>]
        vel_behind == [i \in 1..n |->
            IF i <= Len(lane_followers) /\ BaseFollowerGuard(lane_followers, i)
            THEN <<get_speed(lane_followers[i], -1001), max_speed>>
            ELSE <<0, max_speed>>]
    IN  headway \o tailway \o vel_in_front \o vel_behind

BaseObservation(rl_id) ==
    BaseSelfObservation(rl_id) \o BaseRelativeObservation(rl_id)

\* the per-vehicle queries the base get_state issues for neighbour ids
BaseQueries(rl_id) ==
    LET lane_leaders == get_lane_leaders(rl_id)
        lane_followers == get_lane_followers(rl_id)
    IN  {<<"get_speed", lane_leaders[i]>> :
            i \in {j \in 1..Len(lane_leaders) : lane_leaders[j] # ""}}
        \cup
        {<<"get_speed", lane_followers[i]>> :
            i \in {j \in 1..Len(lane_followers) :
                      BaseFollowerGuard(lane_followers, j)}}

----------------------------------------------------------------------------
(* get_state of BottleneckFlowRewardMultiAgentEnv and                      *)
(* BottleneckDanielMultiAgentEnv: a window of perc_lanes_around lanes on   *)
(* each side of the own lane.                                              *)

get_label(class, veh_id) ==
    IF NameContains(veh_id, "rl") THEN 2
    ELSE IF NameContains(veh_id, "human")
            \/ (class = Daniel /\ NameContains(veh_id, "flow")) THEN 1
    ELSE 0

\* headway_cars_map with lane 0 as the lane of a vehicle that does not exist
headway_cars_map_ErrorLaneZero(class, veh_id) ==
    LET ids == get_lane_leaders(veh_id)
    IN  [i \in 1..Len(ids) |->
            << get_lane(ids[i], 0),
               get_label(class, ids[i]),
               get_x_by_id(ids[i]) - get_x_by_id(veh_id),
               get_speed(ids[i], max_speed) >>]

\* <<lane, label, distance, speed>> per entry of get_lane_leaders
headway_cars_map(class, veh_id) ==
    LET ids == get_lane_leaders(veh_id)
    IN  [i \in 1..Len(ids) |->
            << get_lane(ids[i], LANE_ERROR),
               get_label(class, ids[i]),
               get_x_by_id(ids[i]) - get_x_by_id(veh_id),
               get_speed(ids[i], max_speed) >>]

tailway_cars_map(class, veh_id) ==
    LET ids == get_lane_followers(veh_id)
    IN  [i \in 1..Len(ids) |->
            << get_lane(ids[i], -1001),
               get_label(class, ids[i]),
               IF ids[i] # "" THEN get_x_by_id(ids[i]) - get_x_by_id(veh_id)
               ELSE -1000,
               get_speed(ids[i], 0) >>]

OutOfRangePad == [i \in 1..features_per_car |-> -1]
NoLeaderPad == <<0, 1000, max_speed>>
NoFollowerPad == <<0, -1000, 0>>

\* LaneSlot that appends nothing for a lane that does not exist
LaneSlot_NoPadding(veh_id, cars_map, l, pad) ==
    IF 0 <= l /\ l < num_lanes(get_edge(veh_id))
    THEN IF cars_map[l + 1][1] = l
         THEN SubSeq(cars_map[l + 1], 2, 4)
         ELSE pad
    ELSE <<>>

\* what one iteration of the loop over l appends for lane l
LaneSlot(veh_id, cars_map, l, pad) ==
    IF 0 <= l /\ l < num_lanes(get_edge(veh_id))
    THEN IF cars_map[l + 1][1] = l
         THEN SubSeq(cars_map[l + 1], 2, 4)
         ELSE pad
    ELSE OutOfRangePad

\* the slots of lanes from .. to, in increasing order
RECURSIVE LaneSlots(_, _, _, _, _)
LaneSlots(veh_id, cars_map, from, to, pad) ==
    IF from > to THEN <<>>
    ELSE LaneSlot(veh_id, cars_map, from, pad)
         \o LaneSlots(veh_id, cars_map, from + 1, to, pad)

WindowedSelf(veh_id) ==
    << get_x_by_id(veh_id),
       get_speed(veh_id, -1001),
       speed_limit(get_edge(veh_id)) >>

\* the leader slot and then the follower slot of each lane from .. to
RECURSIVE InterleavedSlots(_, _, _, _, _)
InterleavedSlots(veh_id, head_map, tail_map, from, to) ==
    IF from > to THEN <<>>
    ELSE LaneSlot(veh_id, head_map, from, NoLeaderPad)
         \o LaneSlot(veh_id, tail_map, from, NoFollowerPad)
         \o InterleavedSlots(veh_id, head_map, tail_map, from + 1, to)

\* others_representation built in one loop, lane by lane
WindowedOthers_Interleaved(class, veh_id) ==
    LET lane == get_lane(veh_id, -1001)
    IN  InterleavedSlots(veh_id, headway_cars_map(class, veh_id),
                         tailway_cars_map(class, veh_id),
                         lane - perc_lanes_around, lane + perc_lanes_around)

\* the loop over the lanes for the leaders, then the loop for the followers
WindowedOthers(class, veh_id) ==
    LET lane == get_lane(veh_id, -1001)
    IN  LaneSlots(veh_id, headway_cars_map(class, veh_id),
                  lane - perc_lanes_around, lane + perc_lanes_around,
                  NoLeaderPad)
        \o
        LaneSlots(veh_id, tailway_cars_map(class, veh_id),
                  lane - perc_lanes_around, lane + perc_lanes_around,
                  NoFollowerPad)

WindowedObservation(class, veh_id) ==
    WindowedSelf(veh_id) \o WindowedOthers(class, veh_id)

\* the per-vehicle queries the windowed get_state issues for neighbour ids
WindowedQueries(veh_id) ==
    LET leaders == get_lane_leaders(veh_id)
        followers == get_lane_followers(veh_id)
        L == {leaders[i] : i \in 1..Len(leaders)}
        F == {followers[i] : i \in 1..Len(followers)}
    IN  {<<q, id>> : q \in {"get_x_by_id", "get_label", "get_speed", "get_lane"},
                     id \in L}
        \cup {<<q, id>> : q \in {"get_label", "get_speed", "get_lane"}, id \in F}
        \cup {<<"get_x_by_id", id>> : id \in F \ {""}}

----------------------------------------------------------------------------
(* get_state, all three classes *)

Range(seq) == {seq[i] : i \in 1..Len(seq)}

\* the agents that get an entry in the returned dict
ObservedIds ==
    IF env_class = Daniel
    THEN {id \in Range(rl_ids) : NameContains(id, "rl")}
    ELSE Range(rl_ids)

Observation(veh_id) ==
    IF env_class = Base THEN BaseObservation(veh_id)
    ELSE WindowedObservation(env_class, veh_id)

Queries(veh_id) ==
    IF env_class = Base THEN BaseQueries(veh_id) ELSE WindowedQueries(veh_id)

GetState ==
    /\ constructed = "ready"
    /\ call' = Called("get_state", None, FALSE)
    /\ obs' = [id \in ObservedIds |-> Observation(id)]
    /\ queried' = UNION {Queries(id) : id \in ObservedIds}
    /\ UNCHANGED <<env_class, additional_params, constructed, time_counter,
                   rl_ids, vehicles, outflow, rewards, accel_cmds, lc_cmds>>

----------------------------------------------------------------------------
(* Action mappings.  The lane change intent of an item is a real number:   *)
(* it is held in tenths (16 is 1.6).                                       *)

Truthy(rl_actions) == rl_actions.given /\ Len(rl_actions.items) > 0

HasKey(rl_actions, veh_id) ==
    \E i \in 1..Len(rl_actions.items) : rl_actions.items[i][1] = veh_id

ItemOf(rl_actions, veh_id) ==
    rl_actions.items[CHOOSE i \in 1..Len(rl_actions.items) :
                        rl_actions.items[i][1] = veh_id]

----------------------------------------------------------------------------
(* compute_reward.  A reward is held in units of 1 / RewardDen.            *)

RewardDen == 4 * 5

\* rewards.desired_velocity over the vehicles on one edge: 0 on a failure or
\* without vehicles, else how close their speeds are to target_velocity
RECURSIVE SumOver(_, _)
SumOver(f, S) ==
    IF S = {} THEN 0
    ELSE LET u == CHOOSE w \in S : TRUE IN f[u] + SumOver(f, S \ {u})

desired_velocity(fail, edge, use_only_rl_ids) ==
    LET on_edge == {u \in DOMAIN vehicles :
                       /\ vehicles[u].edge = edge
                       /\ use_only_rl_ids => u \in {rl_ids[i] : i \in 1..Len(rl_ids)}}
        target == additional_params["target_velocity"]
        max_cost == target * Cardinality(on_edge)
        cost == SumOver([u \in on_edge |-> Abs(vehicles[u].speed - target)],
                        on_edge)
    IN  IF fail \/ on_edge = {} THEN 0
        ELSE (Max(max_cost - cost, 0) * RewardDen) \div max_cost

\* BottleneckMultiAgentEnv.compute_reward, the reward of one agent
BaseReward(rl_actions, fail, rl_id) ==
    IF fail THEN 0
    ELSE desired_velocity(fail, get_edge(rl_id), FALSE)
         + (get_speed(rl_id, -1001) * RewardDen) \div 10
         - (IF HasKey(rl_actions, rl_id)
            THEN (Abs(ItemOf(rl_actions, rl_id)[3]) * RewardDen) \div 10
            ELSE 0)

BaseComputeReward(rl_actions, fail) ==
    IF Truthy(rl_actions)
    THEN [id \in {rl_ids[i] : i \in 1..Len(rl_ids)} |->
             BaseReward(rl_actions, fail, id)]
    ELSE EmptyDict

\* BottleneckFlowRewardMultiAgentEnv.compute_reward
FlowComputeReward(rl_actions, fail) ==
    LET outflow_reward == (2 * outflow * RewardDen) \div (2000 * scaling)
    IN  IF fail
        THEN [id \in {rl_ids[i] : i \in 1..Len(rl_ids)} |-> 0]
        ELSE IF Truthy(rl_actions)
        THEN [id \in {rl_ids[i] : i \in 1..Len(rl_ids)} |->
                 desired_velocity(FALSE, get_edge(id), TRUE) + outflow_reward]
        ELSE EmptyDict

\* BottleneckDanielMultiAgentEnv.compute_reward
scaling_factor_speed == 3
scaling_factor_ofr == 5

\* the term for how closely the agent sticks to the speed limit of its edge
SpeedTerm(speed, limit) ==
    IF speed < limit
    THEN (speed * scaling_factor_speed * RewardDen) \div limit
    ELSE (limit * scaling_factor_speed * RewardDen) \div speed

\* the loop over enumerate(get_rl_ids()) from index i on: reward is the local
\* variable of the method, carried from one iteration to the next
RECURSIVE DanielLoop(_, _, _)
DanielLoop(i, reward, return_rewards) ==
    IF i > Len(rl_ids) THEN return_rewards
    ELSE IF NameContains(rl_ids[i], "rl")
    THEN LET r == reward + SpeedTerm(get_speed(rl_ids[i], -1001),
                                     speed_limit(get_edge(rl_ids[i])))
         IN  DanielLoop(i + 1, r,
                 [id \in DOMAIN return_rewards \cup {rl_ids[i]} |->
                     IF id = rl_ids[i] THEN r ELSE return_rewards[id]])
    ELSE DanielLoop(i + 1, reward, return_rewards)

DanielOutflowTerm ==
    (outflow * scaling_factor_ofr * RewardDen) \div (2000 * scaling)

DanielComputeReward(rl_actions, fail) ==
    DanielLoop(1, DanielOutflowTerm, EmptyDict)

ComputeReward(rl_actions, fail) ==
    /\ constructed = "ready"
    /\ call' = Called("compute_reward", rl_actions, fail)
    /\ rewards' = CASE env_class = Base -> BaseComputeReward(rl_actions, fail)
                    [] env_class = FlowReward -> FlowComputeReward(rl_actions, fail)
                    [] env_class = Daniel -> DanielComputeReward(rl_actions, fail)
    /\ UNCHANGED <<env_class, additional_params, constructed, time_counter,
                   rl_ids, vehicles, outflow, obs, queried, accel_cmds, lc_cmds>>

----------------------------------------------------------------------------
(* _apply_rl_actions, inherited by the three classes *)

\* round(x) of Python for x = tenths / 10: to the nearest integer, a half to
\* the even neighbour
round(tenths) ==
    LET q == tenths \div 10
        r == tenths % 10
    IN  IF r < 5 THEN q
        ELSE IF r > 5 THEN q + 1
        ELSE IF q % 2 = 0 THEN q ELSE q + 1

\* the guard of the lane change with the comparison turned around
LaneChangeGuard_Inverted(rl_id) ==
    time_counter > additional_params["lane_change_duration"] + get_last_lc(rl_id)

\* the guard under which the lane change of rl_id is handed to the simulator
LaneChangeGuard(rl_id) ==
    time_counter <= additional_params["lane_change_duration"] + get_last_lc(rl_id)

\* every controlled vehicle is told to keep its speed when there are no actions
AccelerationCommands_DefaultZero(rl_actions) ==
    IF Truthy(rl_actions)
    THEN [i \in 1..Len(rl_actions.items) |->
             <<rl_actions.items[i][1], rl_actions.items[i][2]>>]
    ELSE [i \in 1..Len(rl_ids) |-> <<rl_ids[i], 0>>]

\* the apply_acceleration calls, in the order of the items
AccelerationCommands(rl_actions) ==
    IF Truthy(rl_actions)
    THEN [i \in 1..Len(rl_actions.items) |->
             <<rl_actions.items[i][1], rl_actions.items[i][2]>>]
    ELSE <<>>

\* the apply_lane_change calls for the items from index i on
RECURSIVE LaneChangeCommandsFrom(_, _)
LaneChangeCommandsFrom(items, i) ==
    IF i > Len(items) THEN <<>>
    ELSE (IF LaneChangeGuard(items[i][1])
          THEN << <<items[i][1], round(items[i][3])>> >>
          ELSE <<>>)
         \o LaneChangeCommandsFrom(items, i + 1)

LaneChangeCommands(rl_actions) ==
    IF Truthy(rl_actions) THEN LaneChangeCommandsFrom(rl_actions.items, 1)
    ELSE <<>>

ApplyRlActions(rl_actions) ==
    /\ constructed = "ready"
    /\ call' = Called("_apply_rl_actions", rl_actions, FALSE)
    /\ accel_cmds' = AccelerationCommands(rl_actions)
    /\ lc_cmds' = LaneChangeCommands(rl_actions)
    /\ UNCHANGED <<env_class, additional_params, constructed, time_counter,
                   rl_ids, vehicles, outflow, obs, queried, rewards>>

----------------------------------------------------------------------------
(* The simulation step that follows: the simulator carries out the lane    *)
(* changes it was handed, may change the lane of a vehicle on its own, and *)
(* records the step of every lane change as the vehicle's last_lc.         *)

ClipLane(edge, l) == Max(0, Min(l, num_lanes(edge) - 1))

\* the vehicle moved by direction (-1 or 1) at step now; any other
\* direction moves nothing
Moved(veh, direction, now) ==
    LET target == ClipLane(veh.edge, veh.lane + direction)
    IN  IF direction \in {-1, 1} /\ target # veh.lane
        THEN [veh EXCEPT !.lane = target, !.last_lc = now]
        ELSE veh

\* the snapshot vs after the lane change commands from index i on
RECURSIVE AfterCommands(_, _, _, _)
AfterCommands(vs, cmds, i, now) ==
    IF i > Len(cmds) THEN vs
    ELSE LET id == cmds[i][1]
         IN  AfterCommands(
                 IF id \in DOMAIN vs
                 THEN [vs EXCEPT ![id] = Moved(vs[id], cmds[i][2], now)]
                 ELSE vs,
                 cmds, i + 1, now)

SimulationStep(own_id, own_direction) ==
    /\ constructed = "ready"
    /\ time_counter < MaxTime
    /\ time_counter' = time_counter + 1
    /\ LET after == AfterCommands(vehicles, lc_cmds, 1, time_counter + 1)
       IN  vehicles' =
               IF own_id \in DOMAIN after
                  /\ after[own_id].last_lc # time_counter + 1
               THEN [after EXCEPT ![own_id] =
                        Moved(after[own_id], own_direction, time_counter + 1)]
               ELSE after
    /\ call' = Called("simulation_step", None, FALSE)
    /\ accel_cmds' = <<>>
    /\ lc_cmds' = <<>>
    /\ UNCHANGED <<env_class, additional_params, constructed, rl_ids,
                   outflow, obs, queried, rewards>>

----------------------------------------------------------------------------
(* __init__ *)

\* the keys of ADDITIONAL_RL_ENV_PARAMS with no key at all
ADDITIONAL_RL_ENV_PARAMS_Empty == {}

\* the keys of ADDITIONAL_RL_ENV_PARAMS
ADDITIONAL_RL_ENV_PARAMS == {"target_velocity"}

\* the parameters the parent environment (BottleneckEnv) requires in its own
\* __init__, reached by super().__init__
ParentRequiredParams == {"max_accel", "max_decel", "lane_change_duration"}

Construct ==
    /\ constructed = "new"
    /\ constructed' =
           IF \E param \in ADDITIONAL_RL_ENV_PARAMS :
                  param \notin DOMAIN additional_params
           THEN "KeyError"
           ELSE IF \E param \in ParentRequiredParams :
                  param \notin DOMAIN additional_params
           THEN "KeyError"
           ELSE "ready"
    /\ call' = Called("__init__", None, FALSE)
    /\ UNCHANGED <<env_class, additional_params, time_counter, rl_ids,
                   vehicles, outflow, obs, queried, rewards, accel_cmds,
                   lc_cmds>>

----------------------------------------------------------------------------
(* Snapshots of the simulator *)

\* last_lc of a vehicle that has not changed lane yet
NeverChangedLane == -1001

RequiredParams ==
    {"target_velocity", "max_accel", "max_decel", "lane_change_duration"}

DurationValues == {1, 2}

\* additional_params with every required parameter supplied
FullParams ==
    {[k \in RequiredParams |->
         CASE k = "lane_change_duration" -> d
           [] k = "target_velocity" -> 20
           [] OTHER -> 3] :
        d \in DurationValues}

Positions == {10 * i : i \in 1..MaxPos}

\* the states a vehicle can be in: on a lane of an edge, at a position
VehicleStates(speeds, last_lcs) ==
    UNION {
        {[edge |-> e, lane |-> l, x |-> edge_start(e) + p, speed |-> s,
          last_lc |-> t] :
            l \in 0..(num_lanes(e) - 1), p \in Positions, s \in speeds,
            t \in last_lcs} :
        e \in Edges}

\* no two vehicles at the same place
NoOverlap(vs) ==
    \A u, w \in DOMAIN vs :
        u # w => <<vs[u].edge, vs[u].lane, vs[u].x>>
                 # <<vs[w].edge, vs[w].lane, vs[w].x>>

\* the snapshots with vehicles among pool, vehicle id at a speed of speeds_of[id]
Snapshots(pool, speeds_of, last_lcs) ==
    UNION {
        {vs \in [S -> VehicleStates(UNION {speeds_of[id] : id \in S}, last_lcs)] :
            /\ NoOverlap(vs)
            /\ \A id \in S : vs[id].speed \in speeds_of[id]} :
        S \in SUBSET pool}

\* the lists without repetition of all elements of the set S
Orderings(S) ==
    {q \in [1..Cardinality(S) -> S] : \A i, j \in 1..Cardinality(S) :
        i # j => q[i] # q[j]}

\* the controlled vehicles: reinforcement-learning vehicles, some inserted by
\* an inflow and named after it
Controlled == {"rl_0", "rl_1", "flow_0"}

\* the controlled vehicles of a snapshot in sorted order
RECURSIVE SortedIds(_)
SortedIds(S) ==
    IF S = {} THEN <<>>
    ELSE LET first == IF "flow_0" \in S THEN "flow_0"
                      ELSE IF "rl_0" \in S THEN "rl_0" ELSE "rl_1"
         IN  <<first>> \o SortedIds(S \ {first})

InitOutputs ==
    /\ call = Called("__init__", None, FALSE)
    /\ obs = EmptyDict
    /\ queried = {}
    /\ rewards = EmptyDict
    /\ accel_cmds = <<>>
    /\ lc_cmds = <<>>

----------------------------------------------------------------------------
(* Observations: an environment over a snapshot, get_state called on it *)

ObsSpeedsOf == [veh_id \in VehIds |-> IF veh_id = "rl_0" THEN {0, 20} ELSE {10}]

InitObs ==
    /\ env_class \in EnvClasses
    /\ additional_params \in FullParams
    /\ additional_params["lane_change_duration"] = 1
    /\ constructed = "ready"
    /\ time_counter = 0
    /\ vehicles \in Snapshots({"rl_0", "flow_0", "human_0"}, ObsSpeedsOf,
                              {NeverChangedLane})
    /\ rl_ids = SortedIds(DOMAIN vehicles \cap Controlled)
    /\ outflow = 0
    /\ InitOutputs

NextObs == GetState

SpecObs == InitObs /\ [][NextObs]_vars

----------------------------------------------------------------------------
(* Claims about get_state *)

ObservationLength ==
    nr_self_perc_features
    + features_per_car * 2 * (2 * perc_lanes_around + 1)

\* C1, as stated: in every environment class every observation get_state
\* returns has length S + F*2*(2R+1) = 21.
C1_AllClassesLength21 ==
    \A id \in DOMAIN obs : Len(obs[id]) = ObservationLength

\* C1, amended: every observation of the two windowed classes
\* (BottleneckFlowRewardMultiAgentEnv, BottleneckDanielMultiAgentEnv) has
\* length S + F*2*(2R+1) = 21, whatever the lane, the lane count and the
\* neighbours; every observation of BottleneckMultiAgentEnv has length
\* 4 + 4 * MAX_LANES * scaling, the length its observation_space declares.
C1_LengthPerClass ==
    \A id \in DOMAIN obs :
        /\ env_class \in Windowed => Len(obs[id]) = ObservationLength
        /\ env_class = Base => Len(obs[id]) = 4 + 4 * MAX_LANES * scaling

\* C1: get_state of a windowed class returned observations for two agents, one
\* in the only lane of its edge and one with a real leader
C1_Witness ==
    /\ call.method = "get_state"
    /\ env_class = FlowReward
    /\ DOMAIN obs = {"rl_0", "flow_0"}
    /\ num_lanes(get_edge("rl_0")) = 1
    /\ \E i \in 1..Len(get_lane_leaders("flow_0")) :
           get_lane_leaders("flow_0")[i] # ""

\* C6: get_state issues no per-vehicle query (get_speed, get_x_by_id,
\* get_lane, get_label) with an empty id.
C6_NoQueryWithEmptyId ==
    \A q \in queried : q[2] # ""

\* the slot of the k-th perceived lane (k = 0 is lane own_lane - R) in the
\* block of leader slots and in the block of follower slots that follows it
LeaderSlotOf(o, k) ==
    SubSeq(o, nr_self_perc_features + features_per_car * k + 1,
              nr_self_perc_features + features_per_car * (k + 1))

FollowerSlotOf(o, k) ==
    LeaderSlotOf(o, 2 * perc_lanes_around + 1 + k)

PerceivedOffsets == 0..(2 * perc_lanes_around)

\* the lane perceived at offset k by the agent
PerceivedLane(veh_id, k) == get_lane(veh_id, -1001) - perc_lanes_around + k

ValidLane(veh_id, l) == 0 <= l /\ l < num_lanes(get_edge(veh_id))

\* every slot without a real neighbour holds its sentinel
SentinelSlots(veh_id) ==
    \A k \in PerceivedOffsets :
        LET l == PerceivedLane(veh_id, k)
        IN  /\ ~ValidLane(veh_id, l) =>
                /\ LeaderSlotOf(obs[veh_id], k) = <<-1, -1, -1>>
                /\ FollowerSlotOf(obs[veh_id], k) = <<-1, -1, -1>>
            /\ (ValidLane(veh_id, l) /\ lane_leader(veh_id, l) = "") =>
                LeaderSlotOf(obs[veh_id], k) = <<0, 1000, max_speed>>
            /\ (ValidLane(veh_id, l) /\ lane_follower(veh_id, l) = "") =>
                FollowerSlotOf(obs[veh_id], k) = <<0, -1000, 0>>

OutOfRangeLeaderSlots(veh_id) ==
    {k \in PerceivedOffsets : LeaderSlotOf(obs[veh_id], k) = <<-1, -1, -1>>}

OutOfRangeFollowerSlots(veh_id) ==
    {k \in PerceivedOffsets : FollowerSlotOf(obs[veh_id], k) = <<-1, -1, -1>>}

InEdgeLane(veh_id) ==
    \/ get_lane(veh_id, -1001) = 0
    \/ get_lane(veh_id, -1001) = num_lanes(get_edge(veh_id)) - 1

\* C7, as stated: in the windowed classes every slot without a real neighbour
\* holds its sentinel, and an agent in lane 0 or in the top lane has exactly
\* one (-1,-1,-1) leader slot and exactly one (-1,-1,-1) follower slot.
C7_SentinelsOneSidePadded ==
    env_class \in Windowed =>
        \A id \in DOMAIN obs :
            /\ SentinelSlots(id)
            /\ InEdgeLane(id) =>
                /\ Cardinality(OutOfRangeLeaderSlots(id)) = 1
                /\ Cardinality(OutOfRangeFollowerSlots(id)) = 1

\* C7, amended: in the windowed classes every slot without a real neighbour
\* holds its sentinel ((-1,-1,-1) for a lane that does not exist, (0, 1000,
\* max_speed) for no leader, (0, -1000, 0) for no follower), and an agent in
\* lane 0 or in the top lane of an edge with at least two lanes has exactly
\* one (-1,-1,-1) leader slot and one (-1,-1,-1) follower slot; on an edge
\* with a single lane both side lanes are padded: two of each.
C7_SentinelsPadded ==
    env_class \in Windowed =>
        \A id \in DOMAIN obs :
            /\ SentinelSlots(id)
            /\ (InEdgeLane(id) /\ num_lanes(get_edge(id)) >= 2) =>
                /\ Cardinality(OutOfRangeLeaderSlots(id)) = 1
                /\ Cardinality(OutOfRangeFollowerSlots(id)) = 1
            /\ num_lanes(get_edge(id)) = 1 =>
                /\ Cardinality(OutOfRangeLeaderSlots(id)) = 2
                /\ Cardinality(OutOfRangeFollowerSlots(id)) = 2

\* C7: an observed agent in the top lane of a four-lane edge, with no leader
\* in its own lane and a real follower in the lane below
C7_Witness ==
    /\ call.method = "get_state"
    /\ env_class = Daniel
    /\ "rl_0" \in DOMAIN obs
    /\ get_edge("rl_0") = "3"
    /\ get_lane("rl_0", -1001) = 3
    /\ lane_leader("rl_0", 3) = ""
    /\ lane_follower("rl_0", 2) # ""

----------------------------------------------------------------------------
(* Rewards: an environment over a snapshot, compute_reward called on it *)

\* compute_reward reads the speed and the edge of the controlled vehicles:
\* each is at the first position of a lane of its own
RewardSpeedsOf ==
    [veh_id \in VehIds |->
        CASE veh_id = "rl_0" -> {0, 10, 40}
          [] veh_id = "rl_1" -> {10, 20}
          [] OTHER -> {20}]

RewardSnapshots ==
    {vs \in Snapshots(Controlled, RewardSpeedsOf, {NeverChangedLane}) :
        \A id \in DOMAIN vs :
            /\ vs[id].x = edge_start(vs[id].edge) + 10
            /\ id = "rl_0" => vs[id].lane = 0
            /\ id = "rl_1" => vs[id].lane = num_lanes(vs[id].edge) - 1
            /\ id = "flow_0" => vs[id].edge = "3" /\ vs[id].lane = 1}

OutflowRates == {0, 400}

RewardActions == {<<1, 0>>, <<-1, -10>>}

\* the action mappings handed to compute_reward: None, the empty dict and
\* the dicts that give one action to the first n controlled vehicles
RewardMappings ==
    {None} \cup
    {Dict([i \in 1..n |-> <<rl_ids[i], a[1], a[2]>>]) :
        n \in 0..Len(rl_ids), a \in RewardActions}

InitReward ==
    /\ env_class \in EnvClasses
    /\ additional_params \in FullParams
    /\ additional_params["lane_change_duration"] = 1
    /\ constructed = "ready"
    /\ time_counter = 0
    /\ vehicles \in RewardSnapshots
    /\ rl_ids \in Orderings(DOMAIN vehicles)
    /\ outflow \in OutflowRates
    /\ InitOutputs

NextReward ==
    \E rl_actions \in RewardMappings, fail \in BOOLEAN :
        ComputeReward(rl_actions, fail)

SpecReward == InitReward /\ [][NextReward]_vars

----------------------------------------------------------------------------
(* Claims about compute_reward *)

\* C2: in every environment class, compute_reward called with fail=True
\* returns a dict that holds every controlled agent and maps it to 0.
C2_FailGivesEveryAgentZero ==
    (call.method = "compute_reward" /\ call.fail) =>
        /\ DOMAIN rewards = Range(rl_ids)
        /\ \A id \in DOMAIN rewards : rewards[id] = 0

\* C10: in BottleneckDanielMultiAgentEnv.compute_reward the reward of every
\* agent is the scaled outflow term plus the speed term of that agent alone.
C10_DanielRewardIndividual ==
    (call.method = "compute_reward" /\ env_class = Daniel) =>
        \A id \in DOMAIN rewards :
            rewards[id] = DanielOutflowTerm
                          + SpeedTerm(get_speed(id, -1001),
                                      speed_limit(get_edge(id)))

----------------------------------------------------------------------------
(* Actions: an environment stepped through the simulation, with            *)
(* _apply_rl_actions called before each simulation step                    *)

ActSpeedsOf == [veh_id \in VehIds |-> {10}]

\* rl_0 on the four-lane edge, rl_1 on the two-lane edge
ActSnapshots ==
    {vs \in Snapshots({"rl_0", "rl_1"}, ActSpeedsOf, {NeverChangedLane}) :
        \A id \in DOMAIN vs :
            /\ vs[id].x = edge_start(vs[id].edge) + 10
            /\ id = "rl_0" => vs[id].edge = "3" /\ vs[id].lane \in {0, 2}
            /\ id = "rl_1" => vs[id].edge = "4"}

\* the actions <<acceleration, lane change intent in tenths>> of a vehicle
ActActionsOf(veh_id) ==
    IF veh_id = "rl_0"
    THEN {<<2, 0>>, <<-1, 4>>, <<2, 5>>, <<-1, -5>>, <<2, 6>>, <<-1, 10>>,
          <<2, -10>>, <<-1, 15>>, <<2, 16>>, <<-1, -24>>}
    ELSE {<<2, 10>>, <<-1, -10>>}

\* the action mappings over ids: every list of items with distinct keys
ActionMappings(ids) ==
    UNION {
        UNION {
            {m \in [1..Len(q) -> UNION {{<<id, a[1], a[2]>> :
                                           a \in ActActionsOf(id)} : id \in S}] :
                \A i \in 1..Len(q) : m[i][1] = q[i]} :
            q \in Orderings(S)} :
        S \in SUBSET ids}

InitAct ==
    /\ env_class \in EnvClasses
    /\ additional_params \in FullParams
    /\ constructed = "ready"
    /\ time_counter = 0
    /\ vehicles \in ActSnapshots
    /\ rl_ids = SortedIds(DOMAIN vehicles)
    /\ outflow = 0
    /\ InitOutputs

NextAct ==
    \/ \E rl_actions \in {None} \cup
           {Dict(m) : m \in ActionMappings(DOMAIN vehicles)} :
           /\ call.method # "_apply_rl_actions"
           /\ ApplyRlActions(rl_actions)
    \/ \E own_id \in {"rl_0", "rl_1"}, own_direction \in {-1, 0, 1} :
           SimulationStep(own_id, own_direction)

SpecAct == InitAct /\ [][NextAct]_vars

----------------------------------------------------------------------------
(* Construction: __init__ called with any set of parameters supplied *)

ParamKeys == RequiredParams \cup {"disable_tb", "disable_ramp_metering"}

InitNew ==
    /\ env_class \in EnvClasses
    /\ additional_params \in
           UNION {[S -> {3}] : S \in SUBSET ParamKeys}
    /\ constructed = "new"
    /\ time_counter = 0
    /\ vehicles = EmptyDict
    /\ rl_ids = <<>>
    /\ outflow = 0
    /\ call = Called("new", None, FALSE)
    /\ obs = EmptyDict
    /\ queried = {}
    /\ rewards = EmptyDict
    /\ accel_cmds = <<>>
    /\ lc_cmds = <<>>

NextNew == Construct

SpecNew == InitNew /\ [][NextNew]_vars

----------------------------------------------------------------------------
(* Claims about _apply_rl_actions and __init__ *)

\* the lane change commands issued for the agent
LaneChangesFor(veh_id) ==
    {j \in 1..Len(lc_cmds) : lc_cmds[j][1] = veh_id}

\* time_counter is inside the window that the agent's last lane change opened
InsideWindow(veh_id) ==
    time_counter <= get_last_lc(veh_id)
                    + additional_params["lane_change_duration"]

\* C3: a non-zero lane change intent received while time_counter is still
\* inside the cooldown window of the agent's last lane change
\* (time_counter <= last_lc + lane_change_duration) issues no
\* apply_lane_change command for the agent.
C3_NoLaneChangeInsideCooldown ==
    call.method = "_apply_rl_actions" =>
        \A i \in 1..Len(call.rl_actions.items) :
            LET item == call.rl_actions.items[i]
            IN  (item[3] # 0 /\ InsideWindow(item[1])) =>
                    LaneChangesFor(item[1]) = {}

\* C4: for each agent of the action mapping an apply_lane_change command is
\* issued iff time_counter <= lane_change_duration + get_last_lc(agent);
\* otherwise the intent is dropped, no command at all; apply_acceleration is
\* issued for the agent with actions[0] in either case.
C4_LaneChangeIffInsideWindow ==
    call.method = "_apply_rl_actions" =>
        /\ Len(accel_cmds) = Len(call.rl_actions.items)
        /\ \A i \in 1..Len(call.rl_actions.items) :
            LET item == call.rl_actions.items[i]
            IN  /\ accel_cmds[i] = <<item[1], item[2]>>
                /\ Cardinality(LaneChangesFor(item[1]))
                       = IF InsideWindow(item[1]) THEN 1 ELSE 0

\* C4: actions for two agents, one inside the window of its last lane change
\* and one outside: one lane change command, two acceleration commands
C4_Witness ==
    /\ call.method = "_apply_rl_actions"
    /\ Len(call.rl_actions.items) = 2
    /\ \E i, j \in 1..2 :
           /\ InsideWindow(call.rl_actions.items[i][1])
           /\ ~InsideWindow(call.rl_actions.items[j][1])
           /\ call.rl_actions.items[j][3] # 0
    /\ Len(lc_cmds) = 1
    /\ Len(accel_cmds) = 2

\* C5: every direction handed to apply_lane_change is one of -1, 0, 1.
C5_DirectionClamped ==
    \A j \in 1..Len(lc_cmds) : lc_cmds[j][2] \in {-1, 0, 1}

\* C8: _apply_rl_actions with rl_actions None or empty issues no
\* apply_acceleration and no apply_lane_change command and changes nothing of
\* the environment.
C8_NoActionsNoEffect ==
    [][(call'.method = "_apply_rl_actions" /\ ~Truthy(call'.rl_actions)) =>
          /\ accel_cmds' = <<>>
          /\ lc_cmds' = <<>>
          /\ UNCHANGED <<env_class, additional_params, constructed,
                         time_counter, rl_ids, vehicles, outflow>>]_vars

\* C8: _apply_rl_actions was called with None while a controlled vehicle was
\* inside the window of its last lane change
C8_Witness ==
    /\ call.method = "_apply_rl_actions"
    /\ ~call.rl_actions.given
    /\ \E id \in Range(rl_ids) : InsideWindow(id)
    /\ accel_cmds = <<>>

\* C9: construction completes with none of target_velocity, max_accel,
\* max_decel, lane_change_duration missing; with one of them missing it ends
\* in the configuration error.
C9_MissingParamFailsConstruction ==
    (constructed # "new"
     /\ \E param \in RequiredParams : param \notin DOMAIN additional_params)
        => constructed = "KeyError"

\* C9: __init__ raised for parameters that lack target_velocity alone
C9_Witness ==
    /\ constructed = "KeyError"
    /\ RequiredParams \ DOMAIN additional_params = {"target_velocity"}

----------------------------------------------------------------------------
(* Claims about the content and the layout of the windowed observations    *)
(* and about the observation spaces; checked under SpecObs                 *)

\* <<category label, distance, speed>> of the real neighbour u of veh_id
NeighbourTriple(veh_id, u) ==
    << get_label(env_class, u),
       vehicles[u].x - vehicles[veh_id].x,
       vehicles[u].speed >>

\* C11: in the windowed classes, whenever the simulator reports a real leader
\* for a valid perceived lane l, the leader slot of l holds that leader's
\* (label, distance, speed), also when the leader's own lane index differs
\* from l; the same for followers.
C11_RealNeighbourShown ==
    env_class \in Windowed =>
        \A id \in DOMAIN obs : \A k \in PerceivedOffsets :
            LET l == PerceivedLane(id, k)
            IN  /\ (ValidLane(id, l) /\ lane_leader(id, l) # "") =>
                    LeaderSlotOf(obs[id], k)
                        = NeighbourTriple(id, lane_leader(id, l))
                /\ (ValidLane(id, l) /\ lane_follower(id, l) # "") =>
                    FollowerSlotOf(obs[id], k)
                        = NeighbourTriple(id, lane_follower(id, l))

\* the j-th triple after the self features, j = 0 the first
TripleAt(o, j) ==
    SubSeq(o, nr_self_perc_features + features_per_car * j + 1,
              nr_self_perc_features + features_per_car * (j + 1))

\* what get_state appends for the leader / the follower of lane l
LeaderTripleOf(veh_id, l) ==
    LaneSlot(veh_id, headway_cars_map(env_class, veh_id), l, NoLeaderPad)

FollowerTripleOf(veh_id, l) ==
    LaneSlot(veh_id, tailway_cars_map(env_class, veh_id), l, NoFollowerPad)

SelfFeaturesFirst(veh_id) ==
    SubSeq(obs[veh_id], 1, nr_self_perc_features) = WindowedSelf(veh_id)

\* C12, as stated: a windowed observation is the S self features followed,
\* for each perceived lane in increasing order, by the leader triple of the
\* lane immediately followed by the follower triple of the same lane.
C12_LeaderFollowerAdjacent ==
    env_class \in Windowed =>
        \A id \in DOMAIN obs :
            /\ SelfFeaturesFirst(id)
            /\ \A k \in PerceivedOffsets :
                /\ TripleAt(obs[id], 2 * k)
                       = LeaderTripleOf(id, PerceivedLane(id, k))
                /\ TripleAt(obs[id], 2 * k + 1)
                       = FollowerTripleOf(id, PerceivedLane(id, k))

\* C12, amended: a windowed observation is the S self features followed by
\* the leader triples of the perceived lanes own_lane-R .. own_lane+R in
\* increasing order, and after all of them the follower triples of the same
\* lanes in increasing order: the leader slot of lane own_lane-R+k is triple
\* k, its follower slot is triple (2R+1)+k.
C12_LeadersThenFollowers ==
    env_class \in Windowed =>
        \A id \in DOMAIN obs :
            /\ SelfFeaturesFirst(id)
            /\ Len(obs[id]) = ObservationLength
            /\ \A k \in PerceivedOffsets :
                /\ TripleAt(obs[id], k)
                       = LeaderTripleOf(id, PerceivedLane(id, k))
                /\ TripleAt(obs[id], 2 * perc_lanes_around + 1 + k)
                       = FollowerTripleOf(id, PerceivedLane(id, k))

\* C12: an observed agent whose observation shows a real leader in one
\* perceived lane and a real follower in another (or the same) perceived lane
C12_Witness ==
    /\ call.method = "get_state"
    /\ env_class \in Windowed
    /\ \E id \in DOMAIN obs : \E k1, k2 \in PerceivedOffsets :
        LET l1 == PerceivedLane(id, k1)
            l2 == PerceivedLane(id, k2)
        IN  /\ ValidLane(id, l1) /\ lane_leader(id, l1) # ""
            /\ ValidLane(id, l2) /\ lane_follower(id, l2) # ""
            /\ TripleAt(obs[id], k1) = NeighbourTriple(id, lane_leader(id, l1))
            /\ TripleAt(obs[id], 2 * perc_lanes_around + 1 + k2)
                   = NeighbourTriple(id, lane_follower(id, l2))

\* observation_space: the declared bounds <<low, high>> of every component
observation_space(class) ==
    IF class = FlowReward THEN << -2000, 2000 >> ELSE << 0, 1 >>

\* a component of an observation lies in the declared box; a component of a
\* base observation is the rational <<n, d>> with d > 0
InBox(class, component) ==
    LET low  == observation_space(class)[1]
        high == observation_space(class)[2]
    IN  IF class = Base
        THEN /\ low * component[2] <= component[1]
             /\ component[1] <= high * component[2]
        ELSE /\ low <= component
             /\ component <= high

\* C13: in every class, every component of every observation returned by
\* get_state lies within the bounds declared by the observation_space of the
\* class.
C13_WithinObservationSpace ==
    \A id \in DOMAIN obs : \A i \in 1..Len(obs[id]) :
        InBox(env_class, obs[id][i])

====
